---------------------------- MODULE Spec2Model ----------------------------
(***************************************************************************)
(* Model of the lost-and-found web application in src/app.py.              *)
(*                                                                         *)
(* The state is the relational database (tables student, item, claim and   *)
(* the two id sequences), the browser session, the local file system seen  *)
(* by delete_item, and the HTTP exchange handled last (request and         *)
(* response).  Every route handler is one action: a request is one         *)
(* synchronous transaction.                                                *)
(*                                                                         *)
(* Text typed by a user is a sequence of one-character strings, so that    *)
(* str.strip() and SQL LIKE are computed and not assumed.  Literals of the *)
(* program (status values, template names, exception names) are strings.   *)
(***************************************************************************)
EXTENDS Integers, Sequences, FiniteSets, TLC

VARIABLES student, item, claim, item_seq, claim_seq, session, files,
          request, response

vars == <<student, item, claim, item_seq, claim_seq, session, files,
          request, response>>

db == <<student, item, claim, item_seq, claim_seq>>

-----------------------------------------------------------------------------
(* Bounds of the model *)

NumSalts == 2
MaxItems == 5
MaxClaimedItems == 2
MaxClaims == 2
MaxPage == 2

-----------------------------------------------------------------------------
(* Python values *)

\* request.form.get(...) of a field the form does not carry, session.get(...)
\* of a key the session does not hold: a value no user text equals
None == <<"None">>

\* the empty str
Blank == <<>>

\* Python truthiness of a form value: None and '' are falsy
Truthy(v) == v /= None /\ v /= Blank

\* all([...]) over a tuple of form values
All(vs) == \A i \in 1..Len(vs) : Truthy(vs[i])

RECURSIVE LStrip(_)
LStrip(s) == IF s /= <<>> /\ Head(s) = " " THEN LStrip(Tail(s)) ELSE s

RECURSIVE RStrip(_)
RStrip(s) ==
    IF s /= <<>> /\ s[Len(s)] = " " THEN RStrip(SubSeq(s, 1, Len(s) - 1)) ELSE s

\* str.strip()
Strip(s) == RStrip(LStrip(s))

-----------------------------------------------------------------------------
(* Password hashing (werkzeug.security) *)

\* the characters of the model's texts, in code point order
Chars == <<" ", "%", "0", "1", "2", "_", "a", "b", "e", "n", "p", "q", "s">>

CharCode(c) == CHOOSE i \in 1..Len(Chars) : Chars[i] = c

\* the digest of a password under a salt: a polynomial fold of the characters
RECURSIVE Digest(_, _)
Digest(acc, password) ==
    IF password = <<>> THEN acc
    ELSE Digest((acc * 31 + CharCode(Head(password))) % 65536, Tail(password))

Salts == 1..NumSalts

generate_password_hash(password, salt) ==
    [salt |-> salt, digest |-> Digest(salt, password)]

check_password_hash(pwhash, password) ==
    Digest(pwhash.salt, password) = pwhash.digest

\* Student.set_password: the row with a fresh hash of the password
set_password(row, password, salt) ==
    [student_id |-> row.student_id, name |-> row.name, email |-> row.email,
     phone |-> row.phone,
     password_hash |-> generate_password_hash(password, salt)]

\* Student.check_password
check_password(row, password) == check_password_hash(row.password_hash, password)

-----------------------------------------------------------------------------
(* HTTP responses *)

NoItems == <<>>

Reply(status, target, error, flashes, sql) ==
    [status |-> status, target |-> target, error |-> error,
     flashes |-> flashes, sql |-> sql, items |-> NoItems, total_pages |-> 0,
     removed |-> <<>>]

Render(template, flashes) == Reply(200, template, "none", flashes, <<>>)

Redirect(endpoint, flashes, sql) == Reply(302, endpoint, "none", flashes, sql)

\* an exception that leaves the handler: Flask answers 500, the transaction
\* is rolled back
Unhandled(error, flashes, sql) == Reply(500, "error", error, flashes, sql)

NotFound == Reply(404, "not_found", "NotFound", <<>>, <<>>)

-----------------------------------------------------------------------------
(* Session, local files, remote image store *)

NoSession == [student_id |-> None]

\* a text that is one token
Word(w) == <<w>>

\* an image file left in UPLOAD_FOLDER
LocalFiles == {Word("static/lost_items/a.jpg")}

\* the secure_url of an image stored by Cloudinary
CloudUrl == Word("https://res.cloudinary.com/lost_items/a.jpg")

-----------------------------------------------------------------------------
Init ==
    /\ student = <<>>
    /\ item = <<>>
    /\ claim = <<>>
    /\ item_seq = 0
    /\ claim_seq = 0
    /\ session = NoSession
    /\ files = LocalFiles
    /\ request = [op |-> "index"]
    /\ response = Render("index.html", <<>>)

-----------------------------------------------------------------------------
(* Database helpers *)

\* Query.filter_by(student_id=...).first() is not None
first_student(student_id) == student_id \in DOMAIN student

\* INSERT of a Student row at commit: the database refuses a NULL column and
\* a second row with the same primary key
student_insert_error(row) ==
    IF row.student_id = None \/ row.name = None \/ row.email = None
       \/ row.phone = None
    THEN "IntegrityError"
    ELSE IF row.student_id \in DOMAIN student THEN "IntegrityError"
    ELSE "none"

-----------------------------------------------------------------------------
(* Student views *)

\* a login that looks the student up and never verifies the password
student_login_unverified(student_id, password) ==
    /\ request' = [op |-> "student_login", student_id |-> student_id,
                   password |-> password]
    /\ IF first_student(student_id)
       THEN /\ session' = [student_id |-> student[student_id].student_id]
            /\ response' = Redirect("student_dashboard", <<"logged_in">>, <<>>)
       ELSE /\ response' = Redirect("student_login", <<"bad_credentials">>, <<>>)
            /\ UNCHANGED session
    /\ UNCHANGED <<db, files>>

\* POST /student_login
student_login(student_id, password) ==
    /\ request' = [op |-> "student_login", student_id |-> student_id,
                   password |-> password]
    /\ IF ~first_student(student_id)
       THEN /\ response' = Redirect("student_login", <<"bad_credentials">>, <<>>)
            /\ UNCHANGED session
       ELSE IF password = None
       THEN \* check_password_hash(hash, None) raises
            /\ response' = Unhandled("AttributeError", <<>>, <<>>)
            /\ UNCHANGED session
       ELSE IF check_password_hash(student[student_id].password_hash, password)
       THEN /\ session' = [student_id |-> student[student_id].student_id]
            /\ response' = Redirect("student_dashboard", <<"logged_in">>, <<>>)
       ELSE /\ response' = Redirect("student_login", <<"bad_credentials">>, <<>>)
            /\ UNCHANGED session
    /\ UNCHANGED <<db, files>>

\* the flashes of student_register before the password comparison: neither
\* check returns
register_flashes(name, student_id, email, phone, password, confirm_password) ==
    (IF ~All(<<name, student_id, email, phone, password, confirm_password>>)
     THEN <<"fill_in_required">> ELSE <<>>)
    \o (IF first_student(student_id)
        THEN <<"already_registered">> ELSE <<>>)

\* POST /student_register
student_register(raw_name, student_id, email, phone, password, confirm_password, salt) ==
    /\ request' = [op |-> "student_register", name |-> raw_name,
                   student_id |-> student_id, email |-> email, phone |-> phone,
                   password |-> password, confirm_password |-> confirm_password]
    /\ IF raw_name = None
       THEN \* None.strip()
            /\ response' = Unhandled("AttributeError", <<>>, <<>>)
            /\ UNCHANGED student
       ELSE
         LET name == Strip(raw_name)
             flashes == register_flashes(name, student_id, email, phone,
                                         password, confirm_password)
         IN
         IF password /= confirm_password
         THEN /\ response' = Render("student_register.html",
                                    flashes \o <<"password_mismatch">>)
              /\ UNCHANGED student
         ELSE IF password = None
         THEN \* generate_password_hash(None) raises
              /\ response' = Unhandled("AttributeError", flashes, <<>>)
              /\ UNCHANGED student
         ELSE
           LET new_student ==
                 set_password([student_id |-> student_id, name |-> name,
                               email |-> email, phone |-> phone],
                              password, salt)
               err == student_insert_error(new_student)
           IN
           IF err /= "none"
           THEN /\ response' = Unhandled(err, flashes, <<"INSERT student">>)
                /\ UNCHANGED student
           ELSE /\ student' = student @@ (student_id :> new_student)
                /\ response' = Redirect("student_login",
                                        flashes \o <<"registered">>,
                                        <<"INSERT student">>)
    /\ UNCHANGED <<item, claim, item_seq, claim_seq, session, files>>

\* POST /student_alterpassword
student_alterpassword(raw_student_id, raw_new_password, raw_confirm_password) ==
    /\ request' = [op |-> "student_alterpassword", student_id |-> raw_student_id,
                   new_password |-> raw_new_password,
                   confirm_password |-> raw_confirm_password]
    /\ IF None \in {raw_student_id, raw_new_password, raw_confirm_password}
       THEN response' = Unhandled("AttributeError", <<>>, <<>>)
       ELSE IF Strip(raw_new_password) /= Strip(raw_confirm_password)
       THEN response' = Redirect("student_alterpassword",
                                 <<"password_mismatch">>, <<>>)
       ELSE \* Student.query.filter_by(student_id): filter_by takes keyword
            \* arguments only, the call raises before any row is read
            response' = Unhandled("TypeError", <<>>, <<>>)
    /\ UNCHANGED <<db, session, files>>

\* GET /student_logout
student_logout ==
    /\ request' = [op |-> "student_logout"]
    /\ session' = NoSession
    /\ response' = Render("index.html", <<"logged_out">>)
    /\ UNCHANGED <<db, files>>

-----------------------------------------------------------------------------
(* Administrator views: login and logout *)

AdminEmail == Word("zhou39506@gmail.com")
AdminPassword == Word("zsj123456")

\* POST /administrator_login
administrator_login(email, password) ==
    /\ request' = [op |-> "administrator_login", email |-> email,
                   password |-> password]
    /\ response' = IF email = AdminEmail /\ password = AdminPassword
                   THEN Redirect("administrator_dashboard", <<"logged_in">>, <<>>)
                   ELSE Redirect("administrator_login", <<"bad_credentials">>, <<>>)
    /\ UNCHANGED <<db, session, files>>

\* GET /administrator_logout
administrator_logout ==
    /\ request' = [op |-> "administrator_logout"]
    /\ session' = NoSession
    /\ response' = Render("index.html", <<"logged_out">>)
    /\ UNCHANGED <<db, files>>

-----------------------------------------------------------------------------
(* Registration and authentication on their own *)

S1 == <<"s", "1">>
S2 == <<"s", "2">>
PwP == <<"p">>
PwQ == <<"q">>

\* a complete registration form for a student id and a password
FullForm(student_id, password) ==
    <<<<"n">>, student_id, <<"e">>, <<"1">>, password, password>>

\* the form with field i replaced
WithField(form, i, v) == [form EXCEPT ![i] = v]

\* complete forms, forms with one field blank (the name blank after strip),
\* both passwords blank, and differing passwords
RegisterForms ==
    {FullForm(s, p) : s \in {S1, S2}, p \in {PwP, PwQ}}
    \cup {WithField(FullForm(S1, PwP), i, Blank) : i \in 1..6}
    \cup {WithField(FullForm(S1, PwP), 1, <<" ">>),
          WithField(WithField(FullForm(S1, PwP), 5, Blank), 6, Blank),
          WithField(FullForm(S1, PwP), 6, PwQ),
          WithField(FullForm(S2, PwQ), 3, Blank)}

\* new and confirm password: equal, equal after strip, different
AlterPasswords == {<<PwP, PwP>>, <<<<"q", " ">>, PwQ>>, <<PwP, PwQ>>}

NextAuth ==
    \/ \E f \in RegisterForms, salt \in Salts :
          student_register(f[1], f[2], f[3], f[4], f[5], f[6], salt)
    \/ \E s \in {Blank, S1, S2}, p \in {PwP, PwQ, None} :
          student_login(s, p)
    \/ \E s \in {S1, <<" ", "s", "2">>, None}, n \in AlterPasswords :
          student_alterpassword(s, n[1], n[2])
    \/ student_logout
    \/ \E p \in {AdminPassword, PwP} : administrator_login(AdminEmail, p)
    \/ administrator_logout

SpecAuth == Init /\ [][NextAuth]_vars

-----------------------------------------------------------------------------
(* Item catalog: search and pagination *)

\* LIKE: % matches any run of characters, _ any one character
RECURSIVE Like(_, _)
Like(text, pattern) ==
    IF pattern = <<>> THEN text = <<>>
    ELSE IF Head(pattern) = "%"
    THEN Like(text, Tail(pattern)) \/ (text /= <<>> /\ Like(Tail(text), pattern))
    ELSE /\ text /= <<>>
         /\ (Head(pattern) = "_" \/ Head(pattern) = Head(text))
         /\ Like(Tail(text), Tail(pattern))

\* Column.contains(other): column LIKE '%' || other || '%', wildcards in
\* other not escaped
contains(column, other) == Like(column, <<"%">> \o other \o <<"%">>)

\* string order of the database: by code point, a proper prefix first
RECURSIVE StrLess(_, _)
StrLess(a, b) ==
    IF b = <<>> THEN FALSE
    ELSE IF a = <<>> THEN TRUE
    ELSE IF Head(a) = Head(b) THEN StrLess(Tail(a), Tail(b))
    ELSE CharCode(Head(a)) < CharCode(Head(b))

\* the ids of the rows LostItem.query selects for a keyword
filter_items(keyword) ==
    IF keyword /= Blank
    THEN {i \in DOMAIN item : contains(item[i].name, keyword)}
    ELSE DOMAIN item

\* ORDER BY pickup_time DESC: every order of the ids the database may return,
\* rows of equal pickup_time in any order
RECURSIVE order_by_pickup_time_desc(_)
order_by_pickup_time_desc(ids) ==
    IF ids = {} THEN {<<>>}
    ELSE LET first == {i \in ids : \A j \in ids :
                          ~StrLess(item[i].pickup_time, item[j].pickup_time)}
         IN  UNION {{<<i>> \o rest : rest \in order_by_pickup_time_desc(ids \ {i})}
                    : i \in first}

per_page == 4

\* Query.paginate(page, per_page, error_out=False) over the ordered rows:
\* a page below 1 is page 1, a page past the end is empty
paginate(rows, page) ==
    LET p == IF page < 1 THEN 1 ELSE page
        lo == (p - 1) * per_page + 1
        hi == IF p * per_page < Len(rows) THEN p * per_page ELSE Len(rows)
    IN  [items |-> SubSeq(rows, lo, hi),
         pages |-> (Len(rows) + per_page - 1) \div per_page]

\* the body shared by student_search_items and administrator_view_items
search_items(op, template, raw_keyword, page) ==
    LET keyword == Strip(IF raw_keyword = None THEN <<" ">> ELSE raw_keyword) IN
    /\ request' = [op |-> op, keyword |-> raw_keyword, page |-> page]
    /\ \E pagination \in
             {paginate(rows, page) :
                 rows \in order_by_pickup_time_desc(filter_items(keyword))} :
          response' = [Render(template, <<>>) EXCEPT
                          !.items = pagination.items,
                          !.total_pages = pagination.pages]
    /\ UNCHANGED <<db, session, files>>

\* GET /student_search_items
student_search_items(raw_keyword, page) ==
    search_items("student_search_items", "student_search_items.html",
                 raw_keyword, page)

\* GET /administrator_view_items
administrator_view_items(raw_keyword, page) ==
    search_items("administrator_view_items", "administrator_view_items.html",
                 raw_keyword, page)

-----------------------------------------------------------------------------
(* Staff item management *)

\* cloudinary.uploader.upload: it raises, or it returns a result that may
\* carry a secure_url
UploadOutcomes ==
    {[raised |-> TRUE, secure_url |-> None],
     [raised |-> FALSE, secure_url |-> None],
     [raised |-> FALSE, secure_url |-> Blank],
     [raised |-> FALSE, secure_url |-> CloudUrl]}

upload_image_to_cloudinary(outcome) ==
    IF outcome.raised THEN None ELSE outcome.secure_url

\* a test for None alone, which lets an empty reference through
upload_failed_is_none(image_url) == image_url = None

\* if not image_url
upload_failed(image_url) == ~Truthy(image_url)

\* POST /administrator_upload_items
administrator_upload_items(item_name, description, pickup_time, location, image_file, outcome) ==
    /\ request' = [op |-> "administrator_upload_items", item_name |-> item_name,
                   description |-> description, pickup_time |-> pickup_time,
                   location |-> location, image_file |-> image_file,
                   outcome |-> outcome]
    /\ IF ~All(<<item_name, description, pickup_time, location, image_file>>)
       THEN /\ response' = Redirect("administrator_upload_items",
                                    <<"fill_in_required">>, <<>>)
            /\ UNCHANGED <<item, item_seq>>
       ELSE
         LET image_url == upload_image_to_cloudinary(outcome) IN
         IF upload_failed(image_url)
         THEN /\ response' = Redirect("administrator_upload_items",
                                      <<"upload_failed">>, <<>>)
              /\ UNCHANGED <<item, item_seq>>
         ELSE /\ item_seq' = item_seq + 1
              /\ item' = item @@ (item_seq' :>
                            [id |-> item_seq', name |-> item_name,
                             description |-> description,
                             pickup_time |-> pickup_time, location |-> location,
                             status |-> "pending", image_filename |-> image_url])
              /\ response' = Redirect("administrator_dashboard", <<"uploaded">>,
                                      <<"INSERT item">>)
    /\ UNCHANGED <<student, claim, claim_seq, session, files>>

\* only the first claim of the item, as .first() would select
claims_of_first(item_id) ==
    LET cs == {c \in DOMAIN claim : claim[c].item_id = item_id} IN
    IF cs = {} THEN {} ELSE {CHOOSE c \in cs : \A d \in cs : c <= d}

\* the ids of the claims Claim.query.filter_by(item_id=...).all() selects
claims_of(item_id) == {c \in DOMAIN claim : claim[c].item_id = item_id}

\* the table without the rows of the given keys
delete_rows(table, keys) == [k \in DOMAIN table \ keys |-> table[k]]

\* POST /administrator_delete_item/<item_id>
delete_item(item_id) ==
    /\ request' = [op |-> "delete_item", item_id |-> item_id]
    /\ IF item_id \notin DOMAIN item
       THEN /\ response' = NotFound
            /\ UNCHANGED <<item, claim, files>>
       ELSE
         LET image == item[item_id].image_filename
             exists == image \in files
         IN
         /\ claim' = delete_rows(claim, claims_of(item_id))
         /\ item' = delete_rows(item, {item_id})
         /\ files' = IF exists THEN files \ {image} ELSE files
         /\ response' = [Redirect("administrator_view_items", <<"deleted">>,
                                  (IF claims_of(item_id) = {} THEN <<>>
                                   ELSE <<"DELETE claim">>)
                                  \o <<"DELETE item">>)
                         EXCEPT !.removed = IF exists THEN <<image>> ELSE <<>>]
    /\ UNCHANGED <<student, item_seq, claim_seq, session>>

-----------------------------------------------------------------------------
(* Claims *)

\* INSERT of a Claim row at commit: with foreign keys enforced the database
\* refuses a student_id that is no row of student
claim_insert_error(row, enforce_fk) ==
    IF enforce_fk /\ row.student_id \notin DOMAIN student
    THEN "IntegrityError" ELSE "none"

\* POST /claim/<item_id>
claim_item(item_id, raw_student_name, raw_student_id, raw_phone, raw_reason, enforce_fk) ==
    /\ request' = [op |-> "claim_item", item_id |-> item_id,
                   student_name |-> raw_student_name,
                   student_id |-> raw_student_id, phone |-> raw_phone,
                   reason |-> raw_reason]
    /\ IF item_id \notin DOMAIN item
       THEN /\ response' = NotFound
            /\ UNCHANGED <<claim, claim_seq>>
       ELSE IF None \in {raw_student_name, raw_student_id, raw_phone, raw_reason}
       THEN \* None.strip()
            /\ response' = Unhandled("AttributeError", <<>>, <<>>)
            /\ UNCHANGED <<claim, claim_seq>>
       ELSE
         LET student_name == Strip(raw_student_name)
             student_id == Strip(raw_student_id)
             phone == Strip(raw_phone)
             reason == Strip(raw_reason)
             new_claim == [id |-> claim_seq + 1, student_name |-> student_name,
                           student_id |-> student_id, item_id |-> item_id,
                           phone |-> phone, reason |-> reason,
                           status |-> "pending"]
             err == claim_insert_error(new_claim, enforce_fk)
         IN
         IF ~All(<<student_name, student_id, phone, reason>>)
         THEN /\ response' = Redirect("claim_item", <<"fill_in_required">>, <<>>)
              /\ UNCHANGED <<claim, claim_seq>>
         ELSE IF err /= "none"
         THEN /\ response' = Unhandled(err, <<>>, <<"INSERT claim">>)
              /\ UNCHANGED <<claim, claim_seq>>
         ELSE /\ claim_seq' = claim_seq + 1
              /\ claim' = claim @@ (new_claim.id :> new_claim)
              /\ response' = Redirect("items_detail", <<"claim_submitted">>,
                                      <<"INSERT claim">>)
    /\ UNCHANGED <<student, item, item_seq, session, files>>

Approved == Word("approved")
Rejected == Word("rejected")

\* a decision that is recorded for a pending claim only
set_status_if_pending(claim_id, status) ==
    IF claim[claim_id].status = "pending"
    THEN [claim EXCEPT ![claim_id].status = status]
    ELSE claim

\* claim.status = ... and the commit
set_status(claim_id, status) == [claim EXCEPT ![claim_id].status = status]

\* POST /administrator_review_claim_items/<claim_id>
administrator_review_claim_items(claim_id, decision) ==
    /\ request' = [op |-> "administrator_review_claim_items",
                   claim_id |-> claim_id, decision |-> decision]
    /\ IF claim_id \notin DOMAIN claim
       THEN /\ response' = NotFound
            /\ UNCHANGED claim
       ELSE IF claim[claim_id].item_id \notin DOMAIN item
       THEN /\ response' = NotFound
            /\ UNCHANGED claim
       ELSE IF decision = Approved
       THEN /\ claim' = set_status(claim_id, "approved")
            /\ response' = Redirect("administrator_view_items", <<"review_saved">>,
                                    <<"UPDATE claim">>)
       ELSE IF decision = Rejected
       THEN /\ claim' = set_status(claim_id, "rejected")
            /\ response' = Redirect("administrator_view_items", <<"review_saved">>,
                                    <<"UPDATE claim">>)
       ELSE \* url_for('administrator_review_claim_items') without claim_id:
            \* the URL cannot be built, BuildError leaves the handler
            /\ response' = Unhandled("BuildError", <<"unknown_decision">>, <<>>)
            /\ UNCHANGED claim
    /\ UNCHANGED <<student, item, item_seq, claim_seq, session, files>>

-----------------------------------------------------------------------------
(* The catalog on its own: uploads and the two listings *)

Desc == <<"a">>
Place == <<"b">>
Image == <<"a">>
Stored == [raised |-> FALSE, secure_url |-> CloudUrl]

\* name and pickup_time of the uploads; "2" sorts after "10" in string order
CatalogItems ==
    {<<<<"a", "b">>, <<"1", "0">>>>, <<<<"b">>, <<"2">>>>}

\* no keyword, a keyword to strip, a keyword that is a LIKE wildcard
Keywords == {None, <<" ", "a">>, <<"_">>}

Pages == 1..MaxPage

NextCatalog ==
    \/ /\ item_seq < MaxItems
       /\ \E it \in CatalogItems :
             administrator_upload_items(it[1], Desc, it[2], Place, Image, Stored)
    \/ \E k \in Keywords, p \in Pages : student_search_items(k, p)
    \/ \E k \in Keywords, p \in Pages : administrator_view_items(k, p)

SpecCatalog == Init /\ [][NextCatalog]_vars

-----------------------------------------------------------------------------
(* Claims and staff item management on their own *)

\* a complete form with every outcome of the image store, a form without
\* image, a form with a blank name
Uploads ==
    {<<<<"a">>, Desc, <<"1">>, Place, Image, o>> : o \in UploadOutcomes}
    \cup {<<<<"a">>, Desc, <<"1">>, Place, None, Stored>>,
          <<Blank, Desc, <<"1">>, Place, Image, Stored>>}

\* a complete form, a form with a blank reason, a form without phone
ClaimForms ==
    {<<<<"n">>, <<" ", "s", "1">>, <<"1">>, <<"a">>>>,
     <<<<"n">>, S1, <<"1">>, <<" ">>>>,
     <<<<"n">>, S1, None, <<"a">>>>}

Decisions == {Approved, Rejected, Word("maybe"), None}

NextClaims ==
    \/ student_register(<<"n">>, S1, <<"e">>, <<"1">>, PwP, PwP, 1)
    \/ /\ item_seq < MaxClaimedItems
       /\ \E f \in Uploads :
             administrator_upload_items(f[1], f[2], f[3], f[4], f[5], f[6])
    \/ /\ claim_seq < MaxClaims
       /\ \E i \in 1..(MaxClaimedItems + 1), f \in ClaimForms, fk \in BOOLEAN :
             claim_item(i, f[1], f[2], f[3], f[4], fk)
    \/ \E c \in 1..(MaxClaims + 1), d \in Decisions :
          administrator_review_claim_items(c, d)
    \/ \E i \in 1..(MaxClaimedItems + 1) : delete_item(i)

SpecClaims == Init /\ [][NextClaims]_vars

-----------------------------------------------------------------------------
(* The whole application.  Registration and login, the catalog, and the   *)
(* claims touch disjoint tables (claim_item reads student only to resolve  *)
(* the foreign key), so each part is checked under its own specification.  *)

Next == NextAuth \/ NextCatalog \/ NextClaims

Spec == Init /\ [][Next]_vars

-----------------------------------------------------------------------------
(* Properties *)

Range(seq) == {seq[i] : i \in DOMAIN seq}

Statuses == {"pending", "approved", "rejected"}

\* C1: a register request whose student_id is the id of an existing Student
\* is rejected: no INSERT is attempted and the student table is unchanged.
C1_DuplicateRegisterRejected ==
    [][(request'.op = "student_register"
        /\ request'.student_id \in DOMAIN student)
       => (/\ student' = student
           /\ "INSERT student" \notin Range(response'.sql))]_vars

RegisterFields(r) ==
    <<r.name, r.student_id, r.email, r.phone, r.password, r.confirm_password>>

\* C2: a register request with at least one blank field creates no Student
\* row, whatever the other fields are.
C2_BlankRegisterNoChange ==
    [][(request'.op = "student_register"
        /\ \E i \in 1..6 : RegisterFields(request')[i] = Blank)
       => student' = student]_vars

\* C3: after a change_password request with equal new and confirm passwords
\* for an existing student, the stored hash verifies the new password.
C3_ChangePasswordStoresHash ==
    [][(/\ request'.op = "student_alterpassword"
        /\ request'.student_id /= None
        /\ request'.new_password = request'.confirm_password
        /\ Strip(request'.student_id) \in DOMAIN student)
       => check_password(student'[Strip(request'.student_id)],
                         Strip(request'.new_password))]_vars

\* C4: delete_item of an existing item leaves no claim of the item and no
\* item row, leaves every other row as it was, and issues exactly one
\* deletion of the item's image.
C4_DeleteItemCascades ==
    [][(request'.op = "delete_item" /\ request'.item_id \in DOMAIN item)
       => (/\ request'.item_id \notin DOMAIN item'
           /\ \A c \in DOMAIN claim' : claim'[c].item_id /= request'.item_id
           /\ \A i \in DOMAIN item \ {request'.item_id} :
                 i \in DOMAIN item' /\ item'[i] = item[i]
           /\ \A c \in DOMAIN claim :
                 claim[c].item_id /= request'.item_id
                 => c \in DOMAIN claim' /\ claim'[c] = claim[c]
           /\ Len(response'.removed) = 1)]_vars

UploadFields(r) ==
    <<r.item_name, r.description, r.pickup_time, r.location, r.image_file>>

BlobStoreFails(outcome) ==
    outcome.raised \/ outcome.secure_url = None \/ outcome.secure_url = Blank

\* C5: an upload request with every field and the image present, whose image
\* the blob store fails to store, creates no LostItem row and commits nothing.
C5_FailedUploadNoRow ==
    [][(/\ request'.op = "administrator_upload_items"
        /\ \A i \in 1..5 : UploadFields(request')[i] \notin {None, Blank}
        /\ BlobStoreFails(request'.outcome))
       => (/\ item' = item
           /\ item_seq' = item_seq
           /\ response'.sql = <<>>)]_vars

C5_Witness ==
    /\ request.op = "administrator_upload_items"
    /\ \A i \in 1..5 : UploadFields(request)[i] \notin {None, Blank}
    /\ request.outcome.raised
    /\ response.flashes = <<"upload_failed">>
    /\ item_seq > 0

\* C6: review_claim of an existing claim with a decision other than approved
\* or rejected changes no row and ends in a reported, recovered error: an
\* error message with a redirect, not a failure of the handler.
C6_UnknownDecisionRecovered ==
    [][(/\ request'.op = "administrator_review_claim_items"
        /\ request'.claim_id \in DOMAIN claim
        /\ request'.decision \notin {Approved, Rejected})
       => (/\ db' = db
           /\ "unknown_decision" \in Range(response'.flashes)
           /\ response'.status = 302
           /\ response'.error = "none")]_vars

\* C7: review_claim(c, approved) of an existing claim in any status sets the
\* status of c to approved and changes nothing else; applied to a claim that
\* is approved already it leaves the database as it is; the items are never
\* changed.
C7_ApproveIdempotent ==
    [][(/\ request'.op = "administrator_review_claim_items"
        /\ request'.claim_id \in DOMAIN claim
        /\ request'.decision = Approved)
       => (/\ DOMAIN claim' = DOMAIN claim
           /\ claim'[request'.claim_id].status = "approved"
           /\ \A c \in DOMAIN claim :
                 /\ c /= request'.claim_id => claim'[c] = claim[c]
                 /\ \A f \in DOMAIN claim[c] \ {"status"} :
                       claim'[c][f] = claim[c][f]
           /\ item' = item
           /\ student' = student
           /\ claim[request'.claim_id].status = "approved" => db' = db)]_vars

C7_Witness ==
    /\ request.op = "administrator_review_claim_items"
    /\ request.decision = Approved
    /\ request.claim_id \in DOMAIN claim
    /\ claim[request.claim_id].status = "approved"
    /\ response.sql = <<"UPDATE claim">>
    /\ \E c \in DOMAIN claim : claim[c].status = "rejected"

LoginSucceeded(resp) == resp.status = 302 /\ resp.target = "student_dashboard"

IsSubstring(keyword, text) ==
    \E i \in 1..(Len(text) + 1) :
        /\ i + Len(keyword) - 1 <= Len(text)
        /\ SubSeq(text, i, i + Len(keyword) - 1) = keyword

\* the keyword of a listing request, blank when it is absent or whitespace
KeywordOf(r) == IF r.keyword = None THEN Blank ELSE Strip(r.keyword)

\* the items whose name holds the keyword, all items for a blank keyword
Matching(keyword) ==
    {i \in DOMAIN item : keyword = Blank \/ IsSubstring(keyword, item[i].name)}

\* whether rows lists exactly ids, by pickup_time descending in string order
IsListing(rows, ids) ==
    /\ Len(rows) = Cardinality(ids)
    /\ Range(rows) = ids
    /\ \A i, j \in 1..Len(rows) :
          i < j => ~StrLess(item[rows[i]].pickup_time, item[rows[j]].pickup_time)

\* whether got is page p, of 4 items at most, of a listing of ids
IsPageOf(got, p, ids) ==
    \E rows \in [1..Cardinality(ids) -> ids] :
        /\ IsListing(rows, ids)
        /\ got = SubSeq(rows, 4 * (p - 1) + 1,
                        IF 4 * p < Len(rows) THEN 4 * p ELSE Len(rows))

IsListingRequest(r) ==
    r.op \in {"student_search_items", "administrator_view_items"}

\* C9: search_items(k, p) with p >= 1 returns elements 4(p-1)+1 .. 4p of the
\* items whose name contains k (all items for a blank k) by pickup_time
\* descending: 4 items at most, and none past the last page.
C9_SearchPage ==
    (IsListingRequest(request) /\ request.page >= 1)
    => (/\ response.status = 200
        /\ Len(response.items) <= 4
        /\ IsPageOf(response.items, request.page, Matching(KeywordOf(request))))

\* The pages are as C9 says for every keyword without a LIKE wildcard.
SearchPageOfLiteralKeyword ==
    (/\ IsListingRequest(request)
     /\ request.page >= 1
     /\ Range(KeywordOf(request)) \cap {"%", "_"} = {})
    => (/\ response.status = 200
        /\ Len(response.items) <= 4
        /\ IsPageOf(response.items, request.page, Matching(KeywordOf(request))))

\* C10: every claim refers to an existing item and has one of the three
\* statuses; a claim request for an unknown item is answered 404, a claim it
\* creates is pending and refers to the requested, existing item; after
\* delete_item no claim of the item is left.
C10_ClaimsReferToItems ==
    /\ \A c \in DOMAIN claim :
          claim[c].item_id \in DOMAIN item /\ claim[c].status \in Statuses
    /\ (request.op = "claim_item" /\ request.item_id \notin DOMAIN item)
       => response.status = 404
    /\ (request.op = "claim_item" /\ response.sql = <<"INSERT claim">>
        /\ response.status = 302)
       => (/\ claim_seq \in DOMAIN claim
           /\ claim[claim_seq].status = "pending"
           /\ claim[claim_seq].item_id = request.item_id
           /\ request.item_id \in DOMAIN item)
    /\ request.op = "delete_item"
       => \A c \in DOMAIN claim : claim[c].item_id /= request.item_id

C10_Witness ==
    /\ request.op = "delete_item"
    /\ response.status = 302
    /\ claim_seq = 2
    /\ Cardinality(DOMAIN claim) = 1
    /\ \E c \in DOMAIN claim : claim[c].status = "approved"

=============================================================================
